---- MODULE Spec2Model ----
(***************************************************************************)
(* Envelope drawing and direct-substitution synthesis of                   *)
(* World-hackr/Advance-stacked_encoding.                                   *)
(*                                                                         *)
(* Two scripts of the repository carry the same EnvelopePlot class:        *)
(*   "natural" : the advance_Natural_Language script (centering offset,    *)
(*               CSV based get_modified_wave)                              *)
(*   "temp"    : tempCodeRunnerFile.py (no centering phase)                *)
(* The variable `variant` records which script is running.                 *)
(*                                                                         *)
(* Floating point amplitudes are modelled as exact rationals <<n, d>> in   *)
(* lowest terms with d > 0.  Arrays keep the source's 0-based indices:     *)
(* an array of length n is a function with domain 0..n-1.                  *)
(***************************************************************************)
EXTENDS Integers, Sequences, FiniteSets, TLC

VARIABLES
    variant,         \* which script runs: "natural" or "temp"
    phase,           \* "centering" or "drawing" (process_multi_division)
    envelope_plots,  \* the list envelope_plots of EnvelopePlot objects
    raised,          \* exception raised by the last handler, or "none"
    nevents,         \* number of press and move events delivered so far
    last,            \* ghost: the last delivered event and how it was handled
    begin_state,     \* ghost: per plot, the envelope at its most recent press
    synth,           \* input and output of the last synthesis call
    stroke,          \* ghost: the stroke in progress (press .. release)
    session          \* process_multi_division: the paths entered and the loop position

vars == <<variant, phase, envelope_plots, raised, nevents, last, begin_state, synth,
          stroke, session>>

-----------------------------------------------------------------------------
(* Bounds of the model *)

\* number of samples of every loaded waveform (len(audio_data))
NumPoints == 3

\* number of press and move events delivered in the drawing phase
MaxEvents == 3

\* longest waveform given to the synthesis functions
MaxLen == 2

-----------------------------------------------------------------------------
(* Python's None, and exact rational arithmetic for float values *)

None == <<>>

Abs(x) == IF x < 0 THEN -x ELSE x

RECURSIVE GCD(_, _)
GCD(a, b) == IF b = 0 THEN a ELSE GCD(b, a % b)

\* the rational n/d in lowest terms, d # 0
R(n, d) ==
    LET g == GCD(Abs(n), Abs(d))
        s == IF d < 0 THEN -1 ELSE 1
    IN  <<(s * n) \div g, (s * d) \div g>>

RInt(k) == <<k, 1>>
RAdd(a, b) == R(a[1] * b[2] + b[1] * a[2], a[2] * b[2])
RSub(a, b) == R(a[1] * b[2] - b[1] * a[2], a[2] * b[2])
RMul(a, b) == R(a[1] * b[1], a[2] * b[2])
RDiv(a, b) == R(a[1] * b[2], a[2] * b[1])
RLt(a, b) == a[1] * b[2] < b[1] * a[2]
RGe(a, b) == ~RLt(a, b)
RGt(a, b) == RLt(b, a)
RLe(a, b) == ~RLt(b, a)
Zero == RInt(0)

\* floor of a rational
RFloor(a) == a[1] \div a[2]

Len0(arr) == Cardinality(DOMAIN arr)

-----------------------------------------------------------------------------
(* Python and numpy primitives used by the handlers *)

\* Python round(x) on a float: nearest integer, ties to the even one
py_round(x) ==
    LET f == RFloor(x)
        twice == RSub(RMul(RInt(2), x), RInt(2 * f))   \* 2 * (x - f), in [0, 2)
    IN  IF RLt(twice, RInt(1)) THEN f
        ELSE IF RGt(twice, RInt(1)) THEN f + 1
        ELSE IF f % 2 = 0 THEN f ELSE f + 1

\* Python int(x) on a float: truncation toward zero
py_int(x) == IF RLt(x, Zero) THEN -RFloor(RSub(Zero, x)) ELSE RFloor(x)

\* arr[i] with Python's negative indices; i must satisfy py_index_ok
py_index_ok(n, i) == -n <= i /\ i < n
py_getitem(arr, i) == IF i < 0 THEN arr[Len0(arr) + i] ELSE arr[i]

\* a slice bound as Python clamps it to 0..n
py_slice_bound(n, i) ==
    IF i < 0 THEN (IF n + i < 0 THEN 0 ELSE n + i)
    ELSE IF i > n THEN n ELSE i

\* np.linspace(start, stop, num) for num >= 2: start + k * step, the last
\* element set to stop
np_linspace_off_by_one(start, stop, num) ==
    [k \in 0..(num - 1) |->
        IF k = num - 1 THEN stop
        ELSE RAdd(start, RMul(RInt(k), RDiv(RSub(stop, start), RInt(num))))]

np_linspace(start, stop, num) ==
    [k \in 0..(num - 1) |->
        IF k = num - 1 THEN stop
        ELSE RAdd(start, RMul(RInt(k), RDiv(RSub(stop, start), RInt(num - 1))))]

\* arr[start:stop] = vals ; numpy raises ValueError when the shapes differ.
\* written: the indices of arr the statement assigns
np_slice_assign(arr, start, stop, vals) ==
    LET n == Len0(arr)
        lo == py_slice_bound(n, start)
        hi == py_slice_bound(n, stop)
        slots == IF hi > lo THEN hi - lo ELSE 0
    IN  IF slots # Len0(vals) /\ Len0(vals) # 1
        THEN [arr |-> arr, exc |-> "ValueError", written |-> {}]
        ELSE [arr |-> [i \in DOMAIN arr |->
                          IF lo <= i /\ i < hi
                          THEN (IF Len0(vals) = 1 THEN vals[0] ELSE vals[i - lo])
                          ELSE arr[i]],
              exc |-> "none",
              written |-> {i \in DOMAIN arr : lo <= i /\ i < hi}]

\* np.zeros(n)
np_zeros_uninitialized(n) == [i \in 0..(n - 1) |-> IF i = n - 1 THEN RInt(1) ELSE Zero]

np_zeros(n) == [i \in 0..(n - 1) |-> Zero]

-----------------------------------------------------------------------------
(* EnvelopePlot *)

\* np.abs on an int16 array element: -32768 has no positive counterpart
np_abs_int16(x) == IF x = -32768 THEN -32768 ELSE Abs(x)

\* np.max(np.abs(data))
np_max_abs(data) ==
    LET a == {np_abs_int16(data[i]) : i \in DOMAIN data}
    IN  CHOOSE m \in a : \A x \in a : x <= m

\* the float values that are not numbers: 0.0/0 is nan, x/0 is inf or -inf
\* (numpy warns and does not raise); they are never compared in the model
NaN == <<0, 0>>
Inf == <<1, 0>>
IsFinite(a) == a[2] # 0

\* data.astype(float) / np.max(np.abs(data))
normalize(data) ==
    LET m == np_max_abs(data)
    IN  [i \in DOMAIN data |->
            IF m = 0 THEN (IF data[i] = 0 THEN NaN
                           ELSE IF data[i] < 0 THEN RSub(Zero, Inf) ELSE Inf)
            ELSE R(data[i], m)]

\* self.max_amp = np.max(np.abs(self.audio_data)) : nan when an element is
\* nan, inf when one is infinite
max_amp_of(audio_data) ==
    LET a == {audio_data[i] : i \in DOMAIN audio_data}
        mag(x) == IF RLt(x, Zero) THEN RSub(Zero, x) ELSE x
    IN  IF NaN \in a THEN NaN
        ELSE IF \E x \in a : ~IsFinite(x) THEN Inf
        ELSE CHOOSE m \in {mag(x) : x \in a} : \A x \in a : RLe(mag(x), m)

\* EnvelopePlot.__init__ : the fields the drawing system uses
EnvelopePlot_init(wav, ax) ==
    [ax              |-> ax,
     sample_rate     |-> wav.sample_rate,
     audio_data      |-> normalize(wav.data),
     num_points      |-> Len0(wav.data),
     drawing_pos     |-> np_zeros(Len0(wav.data)),
     drawing_neg     |-> np_zeros(Len0(wav.data)),
     is_drawing      |-> FALSE,
     prev_idx        |-> None,
     last_state_pos  |-> None,
     last_state_neg  |-> None,
     snapshot_shares |-> FALSE,
     offset          |-> Zero,
     center_pos      |-> RInt(1),
     center_neg      |-> RInt(1)]

Ok(self) == [self |-> self, exc |-> "none"]

\* arr.copy(): a new array with the values of arr; shares: the result is
\* the array arr itself, so that a write to one is a write to the other
ndarray_copy_is_same_array(arr) == [data |-> arr, shares |-> TRUE]

ndarray_copy(arr) == [data |-> arr, shares |-> FALSE]

\* the plot after its handler wrote into drawing_pos or drawing_neg in
\* place: arrays that the snapshot shares with them hold the same values;
\* snapshot_shares records whether last_state_pos and last_state_neg are
\* the arrays drawing_pos and drawing_neg
written_in_place(self) ==
    IF self.snapshot_shares
    THEN [self EXCEPT !.last_state_pos = self.drawing_pos,
                      !.last_state_neg = self.drawing_neg]
    ELSE self
Raise(self, e) == [self |-> self, exc |-> e]

\* the call EnvelopePlot(wf, ax, ...): __init__ runs to the end unless
\* ax.set_ylim is given limits that are not finite, which matplotlib
\* rejects with ValueError; the object then exists with its envelope
\* arrays but is never bound
EnvelopePlot_new(wav, ax) ==
    LET self == EnvelopePlot_init(wav, ax)
    IN  IF IsFinite(max_amp_of(self.audio_data)) THEN Ok(self)
        ELSE Raise(self, "ValueError")

\* the sample index of a pointer position: int(round(event.xdata)) in the
\* natural script, int(event.xdata) in tempCodeRunnerFile
to_index(v, xdata) == IF v = "natural" THEN py_round(xdata) ELSE py_int(xdata)

\* rel_amp = event.ydata - self.offset (natural) ; amp = event.ydata (temp)
rel_amp_ignoring_offset(v, self, event) == event.ydata

rel_amp_of(v, self, event) ==
    IF v = "natural" THEN RSub(event.ydata, self.offset) ELSE event.ydata

\* envelope = self.drawing_pos if rel_amp >= 0 else self.drawing_neg
routes_to_pos_swapped(rel_amp) == RLt(rel_amp, Zero)

routes_to_pos(rel_amp) == RGe(rel_amp, Zero)

\* the interpolating branch of update_drawing
interpolate(envelope, prev_idx, idx, rel_amp) ==
    LET swap == prev_idx > idx
        start_idx == IF swap THEN idx ELSE prev_idx
        end_idx == IF swap THEN prev_idx ELSE idx
    IN  IF ~py_index_ok(Len0(envelope), prev_idx)
        THEN [arr |-> envelope, exc |-> "IndexError", written |-> {}]
                                                \* envelope[self.prev_idx]
        ELSE LET start_val == IF swap THEN rel_amp ELSE py_getitem(envelope, prev_idx)
                 end_val == IF swap THEN py_getitem(envelope, prev_idx) ELSE rel_amp
             IN  np_slice_assign(envelope, start_idx, end_idx + 1,
                     np_linspace(start_val, end_val, end_idx - start_idx + 1))

\* the write of update_drawing into the chosen side
write_stroke_endpoint_only(envelope, prev_idx, idx, rel_amp) ==
    [arr |-> [envelope EXCEPT ![idx] = rel_amp], exc |-> "none", written |-> {idx}]

write_stroke(envelope, prev_idx, idx, rel_amp) ==
    IF prev_idx # None /\ idx # prev_idx[1]
    THEN interpolate(envelope, prev_idx[1], idx, rel_amp)
    ELSE [arr |-> [envelope EXCEPT ![idx] = rel_amp], exc |-> "none",
          written |-> {idx}]

\* the index test of update_drawing
index_rejected(self, idx) == idx < 0 \/ idx >= self.num_points

\* EnvelopePlot.update_drawing
update_drawing_clamps(v, self, event) ==
    IF event.xdata = None \/ event.ydata = None THEN Ok(self)
    ELSE LET raw == to_index(v, event.xdata)
             idx == IF raw < 0 THEN 0
                    ELSE IF raw >= self.num_points THEN self.num_points - 1 ELSE raw
             rel_amp == rel_amp_of(v, self, event)
             on_pos == routes_to_pos(rel_amp)
             envelope == IF on_pos THEN self.drawing_pos ELSE self.drawing_neg
             w == write_stroke(envelope, IF self.prev_idx = <<raw>> THEN <<idx>>
                                         ELSE self.prev_idx, idx, rel_amp)
         IN  IF w.exc # "none" THEN Raise(self, w.exc)
             ELSE Ok([self EXCEPT
                         !.drawing_pos = IF on_pos THEN w.arr ELSE @,
                         !.drawing_neg = IF on_pos THEN @ ELSE w.arr,
                         !.prev_idx = <<idx>>])

update_drawing_both_sides(v, self, event) ==
    IF event.xdata = None \/ event.ydata = None THEN Ok(self)
    ELSE LET idx == to_index(v, event.xdata) IN
         IF index_rejected(self, idx) THEN Ok(self)
         ELSE LET rel_amp == rel_amp_of(v, self, event)
                  p == write_stroke(self.drawing_pos, self.prev_idx, idx, rel_amp)
                  q == write_stroke(self.drawing_neg, self.prev_idx, idx, rel_amp)
              IN  IF p.exc # "none" THEN Raise(self, p.exc)
                  ELSE Ok([self EXCEPT !.drawing_pos = p.arr,
                                       !.drawing_neg = q.arr,
                                       !.prev_idx = <<idx>>])

update_drawing(v, self, event) ==
    IF event.xdata = None \/ event.ydata = None THEN Ok(self)
    ELSE LET idx == to_index(v, event.xdata) IN
         IF index_rejected(self, idx) THEN Ok(self)
         ELSE LET rel_amp == rel_amp_of(v, self, event)
                  on_pos == routes_to_pos(rel_amp)
                  envelope == IF on_pos THEN self.drawing_pos ELSE self.drawing_neg
                  w == write_stroke(envelope, self.prev_idx, idx, rel_amp)
              IN  IF w.exc # "none" THEN Raise(self, w.exc)
                  ELSE Ok(written_in_place([self EXCEPT
                              !.drawing_pos = IF on_pos THEN w.arr ELSE @,
                              !.drawing_neg = IF on_pos THEN @ ELSE w.arr,
                              !.prev_idx = <<idx>>]))

\* the side update_drawing chooses and the indices of it that it assigns
update_drawing_writes(v, self, event) ==
    IF event.xdata = None \/ event.ydata = None THEN [on_pos |-> TRUE, idxs |-> {}]
    ELSE LET idx == to_index(v, event.xdata)
             rel_amp == rel_amp_of(v, self, event)
             on_pos == routes_to_pos(rel_amp)
             envelope == IF on_pos THEN self.drawing_pos ELSE self.drawing_neg
         IN  IF index_rejected(self, idx) THEN [on_pos |-> on_pos, idxs |-> {}]
             ELSE LET w == write_stroke(envelope, self.prev_idx, idx, rel_amp)
                  IN  [on_pos |-> on_pos,
                       idxs |-> IF w.exc # "none" THEN {} ELSE w.written]

\* EnvelopePlot.on_mouse_press
on_mouse_press_keeps_snapshot(v, self, event) ==
    IF event.inaxes # self.ax THEN Ok(self)
    ELSE update_drawing(v,
             [self EXCEPT
                 !.is_drawing = TRUE,
                 !.prev_idx = IF event.xdata # None
                              THEN <<to_index(v, event.xdata)>> ELSE @,
                 !.last_state_pos = IF @ = None THEN self.drawing_pos ELSE @,
                 !.last_state_neg = IF @ = None THEN self.drawing_neg ELSE @],
             event)

on_mouse_press_keeps_prev_idx(v, self, event) ==
    IF event.inaxes # self.ax THEN Ok(self)
    ELSE update_drawing(v,
             [self EXCEPT
                 !.is_drawing = TRUE,
                 !.last_state_pos = self.drawing_pos,
                 !.last_state_neg = self.drawing_neg],
             event)

\* the assignments of on_mouse_press that precede its update_drawing call
begin_stroke(v, self, event) ==
    [self EXCEPT
        !.is_drawing = TRUE,
        !.prev_idx = IF event.xdata # None
                     THEN <<to_index(v, event.xdata)>> ELSE @,
        !.last_state_pos = ndarray_copy(self.drawing_pos).data,
        !.last_state_neg = ndarray_copy(self.drawing_neg).data,
        !.snapshot_shares = ndarray_copy(self.drawing_pos).shares]

on_mouse_press(v, self, event) ==
    IF event.inaxes # self.ax THEN Ok(self)
    ELSE update_drawing(v, begin_stroke(v, self, event), event)

\* EnvelopePlot.on_mouse_move
on_mouse_move(v, self, event) ==
    IF self.is_drawing /\ event.inaxes = self.ax
    THEN update_drawing(v, self, event)
    ELSE Ok(self)

\* EnvelopePlot.on_mouse_release
on_mouse_release(self, event) == Ok([self EXCEPT !.is_drawing = FALSE])

\* EnvelopePlot.undo_envelope
undo_envelope_swaps(self) ==
    IF self.last_state_pos # None /\ self.last_state_neg # None
    THEN Ok([self EXCEPT !.drawing_pos = self.last_state_pos,
                         !.drawing_neg = self.last_state_neg,
                         !.last_state_pos = self.drawing_pos,
                         !.last_state_neg = self.drawing_neg])
    ELSE Ok(self)

undo_envelope(self) ==
    IF self.last_state_pos # None /\ self.last_state_neg # None
    THEN Ok([self EXCEPT !.drawing_pos = ndarray_copy(self.last_state_pos).data,
                         !.drawing_neg = ndarray_copy(self.last_state_neg).data,
                         !.snapshot_shares = ndarray_copy(self.last_state_pos).shares])
    ELSE Ok(self)

\* EnvelopePlot.reset_envelope
reset_envelope_reallocates(self) ==
    Ok([self EXCEPT !.drawing_pos = np_zeros(self.num_points - 1),
                    !.drawing_neg = np_zeros(self.num_points - 1)])

reset_envelope_clears_history(self) ==
    Ok([self EXCEPT !.drawing_pos = np_zeros(self.num_points),
                    !.drawing_neg = np_zeros(self.num_points),
                    !.last_state_pos = None,
                    !.last_state_neg = None])

reset_envelope(self) ==
    Ok(written_in_place([self EXCEPT !.drawing_pos = np_zeros(self.num_points),
                                     !.drawing_neg = np_zeros(self.num_points)]))

-----------------------------------------------------------------------------
(* process_multi_division: the event handlers connected to the figure *)

\* position in envelope_plots of the first plot whose axes received the
\* event, 0 when there is none (for ep in envelope_plots: if ...: break)
target_of(plots, event) ==
    IF \E i \in 1..Len(plots) : plots[i].ax = event.inaxes
    THEN CHOOSE i \in 1..Len(plots) :
            /\ plots[i].ax = event.inaxes
            /\ \A j \in 1..(i - 1) : plots[j].ax # event.inaxes
    ELSE 0

Dispatched(plots, i, res) ==
    [plots |-> [plots EXCEPT ![i] = res.self], exc |-> res.exc]

\* process_multi_division.on_press
on_press(v, plots, event) ==
    LET i == target_of(plots, event)
    IN  IF i = 0 THEN [plots |-> plots, exc |-> "none"]
        ELSE Dispatched(plots, i, on_mouse_press(v, plots[i], event))

\* process_multi_division.on_move
on_move(v, plots, event) ==
    LET i == target_of(plots, event)
    IN  IF i = 0 THEN [plots |-> plots, exc |-> "none"]
        ELSE Dispatched(plots, i, on_mouse_move(v, plots[i], event))

\* process_multi_division.on_release
on_release(v, plots, event) ==
    LET i == target_of(plots, event)
    IN  IF i = 0 THEN [plots |-> plots, exc |-> "none"]
        ELSE Dispatched(plots, i, on_mouse_release(plots[i], event))

\* process_multi_division.on_key for the keys 'r' and 'u'
on_key_all_plots(v, plots, event) ==
    [plots |-> [i \in 1..Len(plots) |->
                   IF event.key = "r" THEN reset_envelope(plots[i]).self
                   ELSE IF event.key = "u" THEN undo_envelope(plots[i]).self
                   ELSE plots[i]],
     exc |-> "none"]

on_key(v, plots, event) ==
    LET i == target_of(plots, event)
    IN  IF i = 0 THEN [plots |-> plots, exc |-> "none"]
        ELSE IF event.key = "r" THEN Dispatched(plots, i, reset_envelope(plots[i]))
        ELSE IF event.key = "u" THEN Dispatched(plots, i, undo_envelope(plots[i]))
        ELSE [plots |-> plots, exc |-> "none"]

-----------------------------------------------------------------------------
(* Inputs *)

\* the wav files offered to a session: sample rate and int16 samples
WavFiles ==
    {[sample_rate |-> 8000,
      data |-> [i \in 0..(NumPoints - 1) |-> ((i % 3) - 1) * 1000]]}

\* pointer positions inside the axes: xlim is (0, num_points), ylim is
\* (-1.1, 1.1) for normalized audio
XData == {RInt(k) : k \in 0..NumPoints} \cup {R(2 * NumPoints - 1, 2)}
YData == {R(-1, 2), RInt(1)}

\* values the centering slider (range -0.9 .. 0.9) is moved to
SliderVals == {R(-1, 2)}

\* events over the axes of plot a, and the event outside every axes
PointerEvents(a) ==
    {[inaxes |-> a, xdata |-> x, ydata |-> y, key |-> None] :
        x \in XData, y \in YData}
OutsideEvent == [inaxes |-> 0, xdata |-> None, ydata |-> None, key |-> None]
ReleaseEvents(a) ==
    {[inaxes |-> a, xdata |-> RInt(1), ydata |-> Zero, key |-> None], OutsideEvent}
KeyEvents(a) ==
    {[inaxes |-> a, xdata |-> R(1, 1), ydata |-> Zero, key |-> k] : k \in {"r", "u"}}

EventIdx(v, event) ==
    IF event.xdata = None THEN None ELSE <<to_index(v, event.xdata)>>

\* the two sides of a plot
Envelope(e) == [pos |-> e.drawing_pos, neg |-> e.drawing_neg]

\* what the last event was and whether it changed its plot's envelope; for
\* a press or move also its index and value and the stroke state of its
\* plot before it; repeated: the event before it was of the same kind
Seen(op, v, event, plots, after, before_op) ==
    LET i == target_of(plots, event)
        pointer == op \in {"press", "move"}
    IN  [op |-> op, inaxes |-> event.inaxes,
         idx |-> IF pointer THEN EventIdx(v, event) ELSE None,
         ydata |-> IF pointer THEN event.ydata ELSE None,
         prev |-> IF pointer /\ i # 0 THEN plots[i].prev_idx ELSE None,
         drawing |-> pointer /\ i # 0 /\ plots[i].is_drawing,
         changed |-> i # 0 /\ Envelope(after[i]) # Envelope(plots[i]),
         repeated |-> op = before_op]

NoEvent(op) ==
    [op |-> op, inaxes |-> 0, idx |-> None, ydata |-> None, prev |-> None,
     drawing |-> FALSE, changed |-> FALSE, repeated |-> FALSE]

SynthIdle == [op |-> "none"]

\* no session of process_multi_division is being set up
NoSession == [stage |-> "none"]

\* the stroke in progress, from its press to the next release event: the
\* smallest and largest index visited, the side its points are routed to,
\* ok: every point so far was in range and routed to that side, covered:
\* every index of lo..hi was assigned on that side since the press
NoStroke ==
    [active |-> FALSE, ok |-> FALSE, lo |-> 0, hi |-> 0, on_pos |-> TRUE,
     covered |-> FALSE]
BrokenStroke == [NoStroke EXCEPT !.active = TRUE]

StrokeBegin(v, self, event) ==
    LET idx == to_index(v, event.xdata)
        on_pos == RGe(event.ydata, self.offset)
        w == update_drawing_writes(v, begin_stroke(v, self, event), event)
    IN  IF idx < 0 \/ idx >= self.num_points THEN BrokenStroke
        ELSE [active |-> TRUE, ok |-> TRUE, lo |-> idx, hi |-> idx,
              on_pos |-> on_pos,
              covered |-> w.on_pos = on_pos /\ idx \in w.idxs]

StrokeMove(v, self, event, st) ==
    IF ~st.active \/ ~st.ok THEN st
    ELSE LET idx == to_index(v, event.xdata)
             on_pos == RGe(event.ydata, self.offset)
             w == IF self.is_drawing /\ event.inaxes = self.ax
                  THEN update_drawing_writes(v, self, event)
                  ELSE [on_pos |-> on_pos, idxs |-> {}]
             lo == IF idx < st.lo THEN idx ELSE st.lo
             hi == IF idx > st.hi THEN idx ELSE st.hi
             new == (lo..hi) \ (st.lo..st.hi)
         IN  IF idx < 0 \/ idx >= self.num_points \/ on_pos # st.on_pos
             THEN BrokenStroke
             ELSE [st EXCEPT !.lo = lo, !.hi = hi,
                             !.covered = @ /\ (new = {} \/
                                 (w.on_pos = on_pos /\ new \subseteq w.idxs))]

-----------------------------------------------------------------------------
(* The editing session of one waveform *)

Init ==
    /\ variant \in {"natural", "temp"}
    /\ \E wav \in WavFiles : envelope_plots = <<EnvelopePlot_init(wav, 1)>>
    /\ phase = IF variant = "natural" THEN "centering" ELSE "drawing"
    /\ raised = "none"
    /\ nevents = 0
    /\ last = NoEvent("init")
    /\ begin_state = <<None>>
    /\ synth = SynthIdle
    /\ stroke = NoStroke
    /\ session = NoSession

\* the centering slider's callback update_center
update_center(val) ==
    /\ phase = "centering"
    /\ \E i \in 1..Len(envelope_plots) :
          envelope_plots' = [envelope_plots EXCEPT ![i].offset = val]
    /\ last' = NoEvent("center")
    /\ UNCHANGED <<variant, phase, raised, nevents, begin_state, synth, stroke, session>>

\* Enter pressed: the sliders are removed and the handlers connected
FinalizeCentering ==
    /\ phase = "centering"
    /\ phase' = "drawing"
    /\ UNCHANGED <<variant, envelope_plots, raised, nevents, last, begin_state, synth,
                   stroke, session>>

Deliver(op, event, res) ==
    /\ envelope_plots' = res.plots
    /\ raised' = res.exc
    /\ last' = Seen(op, variant, event, envelope_plots, res.plots, last.op)
    /\ UNCHANGED <<variant, phase, synth, session>>

ButtonPress(event) ==
    /\ phase = "drawing" /\ nevents < MaxEvents
    /\ Deliver("press", event, on_press(variant, envelope_plots, event))
    /\ nevents' = nevents + 1
    /\ begin_state' =
          LET i == target_of(envelope_plots, event)
          IN  IF i = 0 THEN begin_state
              ELSE [begin_state EXCEPT ![i] = Envelope(envelope_plots[i])]
    /\ stroke' =
          LET i == target_of(envelope_plots, event)
          IN  IF i = 0 THEN stroke
              ELSE StrokeBegin(variant, envelope_plots[i], event)

MotionNotify(event) ==
    /\ phase = "drawing" /\ nevents < MaxEvents
    /\ Deliver("move", event, on_move(variant, envelope_plots, event))
    /\ nevents' = nevents + 1
    /\ stroke' =
          LET i == target_of(envelope_plots, event)
          IN  IF i = 0 THEN stroke
              ELSE StrokeMove(variant, envelope_plots[i], event, stroke)
    /\ UNCHANGED begin_state

ButtonRelease(event) ==
    /\ phase = "drawing"
    /\ Deliver("release", event, on_release(variant, envelope_plots, event))
    /\ stroke' = NoStroke
    /\ UNCHANGED <<nevents, begin_state>>

KeyPress(event) ==
    /\ phase = "drawing"
    /\ Deliver(event.key, event, on_key(variant, envelope_plots, event))
    /\ UNCHANGED <<nevents, begin_state, stroke>>

Next ==
    \/ \E val \in SliderVals : update_center(val)
    \/ FinalizeCentering
    \/ \E event \in PointerEvents(1) : ButtonPress(event)
    \/ \E event \in PointerEvents(1) : MotionNotify(event)
    \/ \E event \in ReleaseEvents(1) : ButtonRelease(event)
    \/ \E event \in KeyEvents(1) : KeyPress(event)

Spec == Init /\ [][Next]_vars

-----------------------------------------------------------------------------
(* Properties of the editing session *)

\* the single plot of the session, before and after a step
ep == envelope_plots[1]
ep_next == envelope_plots'[1]

InRange(i) == 0 <= i /\ i < NumPoints

\* a press or move over the plot was just delivered (the step's event)
PointerStep == last'.op \in {"press", "move"} /\ nevents' = nevents + 1

\* the value the step's event stores (pointer value relative to the offset)
\* and the side the specification routes it to
StepValue == RSub(last'.ydata, ep.offset)
StepOnPos == RGe(last'.ydata, ep.offset)
Side(e, on_pos) == IF on_pos THEN e.drawing_pos ELSE e.drawing_neg

\* the step is a move of a running stroke from an index of the side to
\* another index of it
InterpolatingStep ==
    /\ PointerStep /\ last'.op = "move" /\ ep.is_drawing
    /\ ep.prev_idx # None /\ InRange(ep.prev_idx[1])
    /\ InRange(last'.idx[1]) /\ last'.idx[1] # ep.prev_idx[1]

\* the straight line from (prevIndex, old) to (newIndex, v), at index k
Lerp(old, v, prevIndex, newIndex, k) ==
    RAdd(old, RMul(RSub(v, old), R(k - prevIndex, newIndex - prevIndex)))

Between(k, a, b) == (a < k /\ k < b) \/ (b < k /\ k < a)
Outside(k, a, b) == (k < a /\ k < b) \/ (k > a /\ k > b)

\* C1: a move of a stroke from prevIndex to another index newIndex sets
\* S[newIndex] to the stored value v, keeps S[prevIndex], puts every index
\* strictly between them on the straight line from the old S[prevIndex] to
\* v, rightward and leftward alike, and leaves the rest of S unchanged
C1_StrokeInterpolation ==
    [][InterpolatingStep =>
        LET p == ep.prev_idx[1]
            n == last'.idx[1]
            S == Side(ep, StepOnPos)
            T == Side(ep_next, StepOnPos)
        IN  /\ T[n] = StepValue
            /\ T[p] = S[p]
            /\ \A k \in 0..(NumPoints - 1) :
                  /\ Between(k, p, n) => T[k] = Lerp(S[p], StepValue, p, n, k)
                  /\ Outside(k, p, n) => T[k] = S[k]]_vars

\* a leftward drag over at least two samples has just been interpolated:
\* the samples between the two ends lie strictly between the end values
C1_Witness ==
    /\ last.op = "move" /\ last.drawing /\ raised = "none"
    /\ last.prev # None /\ InRange(last.prev[1]) /\ InRange(last.idx[1])
    /\ last.prev[1] - last.idx[1] >= 2
    /\ ep.prev_idx = last.idx
    /\ \E on_pos \in BOOLEAN :
          LET S == Side(ep, on_pos)
          IN  /\ S[last.idx[1]] # S[last.prev[1]]
              /\ S[last.idx[1] + 1] # S[last.idx[1]]
              /\ S[last.idx[1] + 1] # S[last.prev[1]]

\* C2: no handler raises, whatever the sequence of press, move, release,
\* undo and reset events and wherever their sample index lies
C2_NoHandlerRaises == raised = "none"

\* C3: a press or move whose sample index is outside [0, N) leaves both
\* sides of the envelope unchanged
C3_OutOfRangeIsNoOp ==
    [][(PointerStep /\ last'.idx # None /\ ~InRange(last'.idx[1])) =>
        /\ ep_next.drawing_pos = ep.drawing_pos
        /\ ep_next.drawing_neg = ep.drawing_neg]_vars

\* an out-of-range move arrived during a stroke that had already drawn
C3_Witness ==
    /\ last.op = "move" /\ last.drawing
    /\ last.idx # None /\ ~InRange(last.idx[1])
    /\ last.prev # None /\ InRange(last.prev[1])
    /\ \E i \in 0..(NumPoints - 1) :
          ep.drawing_pos[i] # Zero \/ ep.drawing_neg[i] # Zero

\* C4: undo makes the envelope equal to what it was at the moment of the
\* most recent press, whatever was written since; without any press it
\* leaves the envelope unchanged
C4_UndoRestoresBegin ==
    [][(last'.op = "u" /\ last'.inaxes = ep.ax) =>
        IF begin_state[1] # None
        THEN Envelope(ep_next) = begin_state[1]
        ELSE Envelope(ep_next) = Envelope(ep)]_vars

\* an undo has just reverted the writes of a stroke that began on an
\* envelope already drawn on
C4_Witness ==
    /\ last.op = "u" /\ last.changed
    /\ begin_state[1] # None
    /\ Envelope(ep) = begin_state[1]
    /\ \E i \in 0..(NumPoints - 1) :
          ep.drawing_pos[i] # Zero \/ ep.drawing_neg[i] # Zero

\* C5: one level of history: every press overwrites the snapshot with the
\* envelope as it is at that press, and an undo that follows an undo
\* changes nothing
C5_OneLevelHistory ==
    [][/\ (last'.op = "press" /\ nevents' = nevents + 1) =>
             /\ ep_next.last_state_pos = ep.drawing_pos
             /\ ep_next.last_state_neg = ep.drawing_neg
       /\ (last'.op = "u" /\ last.op = "u") =>
             Envelope(ep_next) = Envelope(ep)]_vars

\* after two complete strokes and two undos in a row the envelope is the
\* one the first stroke left (not the empty one from before it)
C5_Witness ==
    /\ last.op = "u" /\ last.repeated
    /\ ~ep.is_drawing
    /\ begin_state[1] # None
    /\ Envelope(ep) = begin_state[1]
    /\ ep.last_state_pos = ep.drawing_pos /\ ep.last_state_neg = ep.drawing_neg
    /\ \E i \in 0..(NumPoints - 1) :
          ep.drawing_pos[i] # Zero \/ ep.drawing_neg[i] # Zero

\* a press, or a move of a running stroke that began at an index of the
\* envelope, arrives at an index of the envelope: the event is written
WritingStep ==
    /\ PointerStep /\ InRange(last'.idx[1])
    /\ \/ last'.op = "press"
       \/ ep.is_drawing /\ ep.prev_idx # None /\ InRange(ep.prev_idx[1])

\* C8: a stroke step changes at most one side: a value routed to positive
\* leaves negative unchanged at every index, and vice versa
C8_SideIndependence ==
    [][PointerStep =>
        /\ StepOnPos => ep_next.drawing_neg = ep.drawing_neg
        /\ ~StepOnPos => ep_next.drawing_pos = ep.drawing_pos]_vars

\* a move has just interpolated one side across samples where the other
\* side holds drawn values
C8_Witness ==
    /\ last.op = "move" /\ last.changed /\ last.prev # None
    /\ InRange(last.prev[1]) /\ InRange(last.idx[1])
    /\ last.prev[1] # last.idx[1]
    /\ LET on_pos == RGe(last.ydata, ep.offset)
           other == Side(ep, ~on_pos)
       IN  other[last.prev[1]] # Zero /\ other[last.idx[1]] # Zero

\* C9: a pointer value y >= offset is written to positive, y < offset to
\* negative, and the value stored at the event's index is y - offset
C9_SignRouting ==
    [][WritingStep =>
        LET n == last'.idx[1]
        IN  /\ Side(ep_next, StepOnPos)[n] = StepValue
            /\ Side(ep_next, ~StepOnPos)[n] = Side(ep, ~StepOnPos)[n]]_vars

\* under a negative offset a pointer value below zero but not below the
\* offset has just been stored, on the positive side
C9_Witness ==
    /\ last.op \in {"press", "move"} /\ last.changed
    /\ ep.offset # Zero
    /\ RLt(last.ydata, Zero) /\ RGe(last.ydata, ep.offset)
    /\ InRange(last.idx[1])
    /\ ep.drawing_pos[last.idx[1]] = RSub(last.ydata, ep.offset)

\* the step is a press, or a move to the index the stroke is already at
SinglePointStep ==
    /\ PointerStep /\ InRange(last'.idx[1])
    /\ \/ last'.op = "press"
       \/ ep.is_drawing /\ ep.prev_idx = last'.idx

\* C10: a press, or a move to the previous index, sets exactly the entry
\* side[newIndex] to the value and leaves every other entry of both sides
\* untouched: the later write wins, and a new stroke's first point is not
\* interpolated from the previous stroke's last point
C10_SinglePointWrite ==
    [][SinglePointStep =>
        /\ Side(ep_next, StepOnPos) =
              [Side(ep, StepOnPos) EXCEPT ![last'.idx[1]] = StepValue]
        /\ Side(ep_next, ~StepOnPos) = Side(ep, ~StepOnPos)]_vars

\* a new stroke has just been pressed two or more samples away from where
\* the previous stroke ended, and the samples in between are still empty
C10_Witness ==
    /\ last.op = "press" /\ last.changed /\ last.prev # None
    /\ InRange(last.prev[1]) /\ InRange(last.idx[1])
    /\ last.idx[1] - last.prev[1] >= 2
    /\ LET S == Side(ep, RGe(last.ydata, ep.offset))
       IN  /\ S[last.prev[1]] # Zero /\ S[last.idx[1]] # Zero
           /\ \A k \in (last.prev[1] + 1)..(last.idx[1] - 1) : S[k] = Zero

\* C11: within a stroke whose points are all in range and routed to one
\* side, every index between the smallest and the largest index visited so
\* far has been written on that side during the stroke, however far apart
\* consecutive pointer samples are
C11_NoGaps == (stroke.active /\ stroke.ok) => stroke.covered

\* a stroke has just jumped over at least one sample and spans three or
\* more indices
C11_Witness ==
    /\ stroke.active /\ stroke.ok /\ stroke.covered
    /\ stroke.hi - stroke.lo >= 2
    /\ last.op = "move" /\ last.changed /\ last.prev # None
    /\ Abs(last.idx[1] - last.prev[1]) >= 2

\* C12: after a release event, wherever the pointer is when the button is
\* released, no move changes the envelope until the next press
C12_StrokeEndsAtRelease ==
    [][(last'.op = "move" /\ nevents' = nevents + 1 /\ ~stroke.active) =>
        Envelope(ep_next) = Envelope(ep)]_vars

\* the step's event belongs to a stroke: a press, or a move while drawing
StrokeStep == PointerStep /\ (last'.op = "press" \/ ep.is_drawing)

\* C27: within a stroke, after every pointer event whose index is in
\* [0, N) the stored previous index is that index, an event whose index is
\* outside [0, N) leaves the stored previous index unchanged, and the
\* stored previous index is always None or within [0, N)
C27_PrevIdxTracking ==
    [][/\ (StrokeStep /\ last'.idx # None) =>
             IF InRange(last'.idx[1]) THEN ep_next.prev_idx = last'.idx
             ELSE ep_next.prev_idx = ep.prev_idx
       /\ ep_next.prev_idx = None \/ InRange(ep_next.prev_idx[1])]_vars

\* the array has exactly the indices 0 .. N-1
HasLength(arr, N) == DOMAIN arr = 0..(N - 1)

\* C28: in every state reachable by press, move, release, undo and reset
\* events positive and negative both have exactly N entries, N the number
\* of source samples, and so have the two arrays of the snapshot whenever
\* one exists
C28_LengthInvariant ==
    LET N == Len0(ep.audio_data)
    IN  /\ HasLength(ep.drawing_pos, N) /\ HasLength(ep.drawing_neg, N)
        /\ ep.last_state_pos # None => HasLength(ep.last_state_pos, N)
        /\ ep.last_state_neg # None => HasLength(ep.last_state_neg, N)

\* after a stroke was released an undo has just brought back a drawn
\* envelope
C28_Witness ==
    /\ last.op = "u" /\ last.changed
    /\ ep.last_state_pos # None /\ ep.last_state_neg # None
    /\ ~ep.is_drawing /\ ep.prev_idx # None
    /\ \E i \in 0..(NumPoints - 1) :
          ep.drawing_pos[i] # Zero \/ ep.drawing_neg[i] # Zero

\* C29: reset sets positive[i] = negative[i] = 0 for every i and changes
\* nothing else, offset and snapshot included, so an undo that follows a
\* reset restores the envelope as it was at the most recent press
C29_ResetKeepsHistory ==
    [][/\ (last'.op = "r" /\ last'.inaxes = ep.ax) =>
             ep_next = [ep EXCEPT
                           !.drawing_pos = [i \in 0..(NumPoints - 1) |-> Zero],
                           !.drawing_neg = [i \in 0..(NumPoints - 1) |-> Zero]]
       /\ (last.op = "r" /\ last'.op = "u" /\ begin_state[1] # None) =>
             Envelope(ep_next) = begin_state[1]]_vars

\* a reset has just cleared an envelope drawn under an offset, and the
\* snapshot still holds drawn values
C29_Witness ==
    /\ last.op = "r" /\ last.changed
    /\ ep.offset # Zero
    /\ \A i \in 0..(NumPoints - 1) :
          ep.drawing_pos[i] = Zero /\ ep.drawing_neg[i] = Zero
    /\ ep.last_state_pos # None /\ ep.last_state_neg # None
    /\ \E i \in 0..(NumPoints - 1) :
          ep.last_state_pos[i] # Zero \/ ep.last_state_neg[i] # Zero

\* the snapshot of a plot, None when there is none
Snapshot(e) ==
    IF e.last_state_pos = None \/ e.last_state_neg = None THEN None
    ELSE [pos |-> e.last_state_pos, neg |-> e.last_state_neg]

\* C31: the snapshot changes only at a press: no move, release, undo or
\* reset step changes its contents, it never shares its arrays with the
\* live envelope, and so it always holds the envelope of the most recent
\* press, whatever was written after that press or after an undo
C31_SnapshotOnlyAtPress ==
    [][/\ last'.op # "press" => Snapshot(ep_next) = Snapshot(ep)
       /\ ~ep_next.snapshot_shares
       /\ Snapshot(ep_next) = begin_state'[1]]_vars

\* a second press took a snapshot that holds drawn values, and a move of
\* that stroke has just written to the envelope, which now differs from it
C31_Witness ==
    /\ last.op = "move" /\ last.changed /\ ep.is_drawing
    /\ Snapshot(ep) # None /\ Snapshot(ep) # Envelope(ep)
    /\ Snapshot(ep) = begin_state[1]
    /\ \E i \in 0..(NumPoints - 1) :
          ep.last_state_pos[i] # Zero \/ ep.last_state_neg[i] # Zero
    /\ \E i \in 0..(NumPoints - 1) :
          ep.drawing_pos[i] # Zero /\ ep.last_state_pos[i] = Zero

-----------------------------------------------------------------------------
(* The editing session of two waveforms stacked in one figure *)

\* the axes of the two subplots
Axes == {1, 2}

\* pointer positions over subplot a: above the baseline at the first
\* sample, below it at the last
StackedPointerEvents(a) ==
    {event \in PointerEvents(a) :
        \/ event.xdata = RInt(0) /\ event.ydata = RInt(1)
        \/ event.xdata = RInt(NumPoints - 1) /\ event.ydata = R(-1, 2)}

InitMulti ==
    /\ variant \in {"natural", "temp"}
    /\ \E wav \in WavFiles :
          envelope_plots = <<EnvelopePlot_init(wav, 1), EnvelopePlot_init(wav, 2)>>
    /\ phase = IF variant = "natural" THEN "centering" ELSE "drawing"
    /\ raised = "none"
    /\ nevents = 0
    /\ last = NoEvent("init")
    /\ begin_state = <<None, None>>
    /\ synth = SynthIdle
    /\ stroke = NoStroke
    /\ session = NoSession

NextMulti ==
    \/ \E val \in SliderVals : update_center(val)
    \/ FinalizeCentering
    \/ \E a \in Axes : \E event \in StackedPointerEvents(a) : ButtonPress(event)
    \/ \E a \in Axes : \E event \in StackedPointerEvents(a) : MotionNotify(event)
    \/ \E a \in Axes : \E event \in ReleaseEvents(a) : ButtonRelease(event)
    \/ \E a \in Axes : \E event \in KeyEvents(a) : KeyPress(event)

SpecMulti == InitMulti /\ [][NextMulti]_vars

\* what editing keeps of a waveform: its two sides, its snapshot and its
\* drawing flag
Editing(e) ==
    [drawing_pos |-> e.drawing_pos, drawing_neg |-> e.drawing_neg,
     last_state_pos |-> e.last_state_pos, last_state_neg |-> e.last_state_neg,
     is_drawing |-> e.is_drawing]

\* C23: a press, move, reset or undo event over the editing surface of one
\* waveform changes neither the sides nor the snapshot nor the drawing flag
\* of any other waveform
C23_EventIsolation ==
    [][last'.op \in {"press", "move", "r", "u"} =>
        \A b \in 1..Len(envelope_plots) :
            envelope_plots[b].ax # last'.inaxes =>
                Editing(envelope_plots'[b]) = Editing(envelope_plots[b])]_vars

\* a reset over the first waveform has just cleared it while the second
\* waveform, drawn on and still in a stroke, kept its envelope and snapshot
C23_Witness ==
    /\ Len(envelope_plots) = 2
    /\ last.op = "r" /\ last.inaxes = 1 /\ last.changed
    /\ envelope_plots[2].is_drawing /\ envelope_plots[2].last_state_pos # None
    /\ \E i \in 0..(NumPoints - 1) :
          envelope_plots[2].drawing_pos[i] # Zero \/ envelope_plots[2].drawing_neg[i] # Zero

-----------------------------------------------------------------------------
(* process_multi_division: asking for the wav files and creating the plots *)

\* number of divisions (subplots) of a session
MaxDiv == 2

\* int16 samples of the wav files offered to a session
LoadPcm == {-32768, 0, 32767}

\* a path the user enters: a file that does not exist, or a mono 16-bit wav
Missing == [exists |-> FALSE, sample_rate |-> 0, data |-> <<>>]
Files ==
    {Missing} \cup
    UNION {{[exists |-> TRUE, sample_rate |-> 8000, data |-> d] :
               d \in [0..(n - 1) -> LoadPcm]} : n \in 1..MaxLen}
PathLists == UNION {[1..n -> Files] : n \in 1..MaxDiv}

InitLoad ==
    /\ variant \in {"natural", "temp"}
    /\ \E paths \in PathLists :
          session = [stage |-> "input", paths |-> paths, wav_files |-> <<>>,
                     failed |-> None]
    /\ envelope_plots = <<>>
    /\ phase = "setup"
    /\ raised = "none"
    /\ nevents = 0
    /\ last = NoEvent("init")
    /\ begin_state = <<>>
    /\ synth = SynthIdle
    /\ stroke = NoStroke

\* one turn of the loop that asks for the wav files: a path that does not
\* exist ends the program with sys.exit(1)
EnterPath ==
    /\ session.stage = "input"
    /\ LET wf == session.paths[Len(session.wav_files) + 1]
       IN  IF ~wf.exists
           THEN /\ raised' = "SystemExit"
                /\ session' = [session EXCEPT !.stage = "exit"]
           ELSE /\ raised' = raised
                /\ session' = [session EXCEPT
                       !.wav_files = Append(@, wf),
                       !.stage = IF Len(session.wav_files) + 1 = Len(session.paths)
                                 THEN "create" ELSE "input"]
    /\ UNCHANGED <<variant, phase, envelope_plots, nevents, last, begin_state,
                   synth, stroke>>

\* one turn of the loop that creates the EnvelopePlot instances: an
\* exception of the constructor is not caught and ends the program
CreateEnvelopePlot ==
    /\ session.stage = "create"
    /\ LET i == Len(envelope_plots) + 1
           res == EnvelopePlot_new(session.wav_files[i], i)
       IN  IF res.exc # "none"
           THEN /\ raised' = res.exc
                /\ session' = [session EXCEPT !.stage = "exit", !.failed = res]
                /\ UNCHANGED envelope_plots
           ELSE /\ raised' = raised
                /\ envelope_plots' = Append(envelope_plots, res.self)
                /\ session' = [session EXCEPT
                       !.stage = IF i = Len(session.wav_files)
                                 THEN "ready" ELSE "create"]
    /\ UNCHANGED <<variant, phase, nevents, last, begin_state, synth, stroke>>

NextLoad == EnterPath \/ CreateEnvelopePlot

SpecLoad == InitLoad /\ [][NextLoad]_vars

\* all samples of the asset are 0
Silent(data) == \A j \in DOMAIN data : data[j] = 0

\* C13: for every non-silent sequence of 16-bit samples every normalized
\* sample lies in [-1, 1] and the largest absolute normalized value is 1
C13_NormalizedRange ==
    \A i \in 1..Len(envelope_plots) :
        LET a == envelope_plots[i].audio_data
        IN  ~Silent(session.wav_files[i].data) =>
                /\ \A j \in DOMAIN a : RLe(RInt(-1), a[j]) /\ RLe(a[j], RInt(1))
                /\ \E j \in DOMAIN a : a[j] \in {RInt(-1), RInt(1)}

\* C14: loading an asset whose samples are all 0 fails with an error of
\* the normalization: the constructor raises before it has made anything,
\* and no plot with an envelope exists for that waveform
C14_SilentAssetRejected ==
    /\ \A i \in 1..Len(envelope_plots) : ~Silent(session.wav_files[i].data)
    /\ (session.stage \in {"exit", "ready"} /\ session.failed # None
            /\ Silent(session.wav_files[Len(envelope_plots) + 1].data)) =>
          session.failed.self = None

\* the file exists and its normalized samples are finite
Loadable(wf) == wf.exists /\ IsFinite(max_amp_of(normalize(wf.data)))

\* C16: when loading one waveform fails, by a missing file or by the
\* normalization, the sibling waveforms are still loaded and get their plot
C16_LoadErrorIsolation ==
    session.stage \in {"exit", "ready"} =>
        \A i \in 1..Len(session.paths) :
            (/\ Loadable(session.paths[i])
             /\ \E j \in 1..Len(session.paths) : ~Loadable(session.paths[j])) =>
                \E k \in 1..Len(envelope_plots) :
                    envelope_plots[k].audio_data = normalize(session.paths[i].data)

\* C24: a freshly initialized envelope of a waveform of N samples, for
\* every N, has positive[i] = negative[i] = 0 for all i in [0, N),
\* offset = 0 and no snapshot: undo changes nothing
C24_FreshEnvelope ==
    \A i \in 1..Len(envelope_plots) :
        LET self == envelope_plots[i]
            N == Len0(session.wav_files[i].data)
        IN  /\ DOMAIN self.drawing_pos = 0..(N - 1)
            /\ DOMAIN self.drawing_neg = 0..(N - 1)
            /\ \A j \in 0..(N - 1) :
                  self.drawing_pos[j] = Zero /\ self.drawing_neg[j] = Zero
            /\ self.offset = Zero
            /\ self.last_state_pos = None /\ self.last_state_neg = None
            /\ undo_envelope(self) = Ok(self)

\* the plots of two waveforms of different lengths have been created
C24_Witness ==
    /\ session.stage = "ready" /\ Len(envelope_plots) = 2
    /\ envelope_plots[1].num_points = 1
    /\ envelope_plots[2].num_points = MaxLen
    /\ envelope_plots[2].audio_data[MaxLen - 1] # Zero

-----------------------------------------------------------------------------
(* Direct substitution: get_modified_wave and preview_envelope *)

\* Text is a sequence of one-character strings.  A float of the envelope
\* is modelled by the decimal number its shortest representation denotes
\* (0.9 by 9/10), so its text is the decimal expansion of that number; the
\* model's values are 0 or at least 1e-4 in magnitude, where str() uses no
\* exponent.
Digits == <<"0", "1", "2", "3", "4", "5", "6", "7", "8", "9">>
DigitVal(c) == CHOOSE k \in 0..9 : Digits[k + 1] = c

\* str(i) of an int i >= 0
RECURSIVE py_str_int(_)
py_str_int(k) ==
    IF k < 10 THEN <<Digits[k + 1]>>
    ELSE py_str_int(k \div 10) \o <<Digits[(k % 10) + 1]>>

\* the digits after the point of rem/d, at most k of them
RECURSIVE frac_digits(_, _, _)
frac_digits(rem, d, k) ==
    IF rem = 0 \/ k = 0 THEN <<>>
    ELSE <<Digits[((rem * 10) \div d) + 1]>> \o frac_digits((rem * 10) % d, d, k - 1)

\* str(x) of a float x, as csv.writer writes a cell that is not a string
py_str_float(x) ==
    LET n == Abs(x[1])
        frac == frac_digits(n % x[2], x[2], 17)
    IN  (IF x[1] < 0 THEN <<"-">> ELSE <<>>) \o py_str_int(n \div x[2]) \o <<".">>
            \o (IF frac = <<>> THEN <<"0">> ELSE frac)

\* the number a sequence of digits denotes
RECURSIVE to_nat(_)
to_nat(ds) ==
    IF ds = <<>> THEN 0
    ELSE 10 * to_nat(SubSeq(ds, 1, Len(ds) - 1)) + DigitVal(ds[Len(ds)])

RECURSIVE Pow10(_)
Pow10(k) == IF k = 0 THEN 1 ELSE 10 * Pow10(k - 1)

\* float(text) for a decimal text with an optional sign and point
py_float(text) ==
    LET neg == text[1] = "-"
        body == IF neg THEN Tail(text) ELSE text
        dot == IF \E i \in 1..Len(body) : body[i] = "."
               THEN CHOOSE i \in 1..Len(body) : body[i] = "."
               ELSE Len(body) + 1
        whole == to_nat(SubSeq(body, 1, dot - 1))
        frac == SubSeq(body, dot + 1, Len(body))
        num == whole * Pow10(Len(frac)) + to_nat(frac)
    IN  R(IF neg THEN -num ELSE num, Pow10(Len(frac)))

\* the envelope table written at the end of the drawing phase: a header
\* row, then one row (i, drawing_pos[i], drawing_neg[i]) per sample, every
\* cell converted to text
envelope_csv(self) ==
    <<<<"Index", "Positive", "Negative">>>> \o
    [r \in 1..self.num_points |->
        <<py_str_int(r - 1), py_str_float(self.drawing_pos[r - 1]),
          py_str_float(self.drawing_neg[r - 1])>>]

\* load_envelope_csv: skip the header, collect float(row[1]) and
\* float(row[2]) of every row
load_envelope_csv_shifted_columns(rows) ==
    [pos |-> [i \in 0..(Len(rows) - 2) |-> py_float(rows[i + 2][1])],
     neg |-> [i \in 0..(Len(rows) - 2) |-> py_float(rows[i + 2][2])]]

load_envelope_csv(rows) ==
    [pos |-> [i \in 0..(Len(rows) - 2) |-> py_float(rows[i + 2][2])],
     neg |-> [i \in 0..(Len(rows) - 2) |-> py_float(rows[i + 2][3])]]

\* get_modified_wave of the natural script; loaded_pos[i] and
\* loaded_neg[i] raise IndexError past the end of the loaded arrays
get_modified_wave_keeps_offset(self, rows, subtract_offset) ==
    LET loaded == load_envelope_csv(rows)
    IN  IF \E i \in DOMAIN self.audio_data : ~py_index_ok(Len0(loaded.pos), i)
        THEN [wave |-> None, exc |-> "IndexError"]
        ELSE [wave |-> [i \in DOMAIN self.audio_data |->
                           IF RGe(self.audio_data[i], Zero)
                           THEN RAdd(loaded.pos[i], self.offset)
                           ELSE RAdd(loaded.neg[i], self.offset)],
              exc |-> "none"]

get_modified_wave(self, rows, subtract_offset) ==
    LET loaded == load_envelope_csv(rows)
        adjusted == [i \in DOMAIN self.audio_data |->
                        IF RGe(self.audio_data[i], Zero)
                        THEN RAdd(loaded.pos[i], self.offset)
                        ELSE RAdd(loaded.neg[i], self.offset)]
    IN  IF \E i \in DOMAIN self.audio_data : ~py_index_ok(Len0(loaded.pos), i)
        THEN [wave |-> None, exc |-> "IndexError"]
        ELSE [wave |-> IF subtract_offset
                       THEN [i \in DOMAIN adjusted |-> RSub(adjusted[i], self.offset)]
                       ELSE adjusted,
              exc |-> "none"]

\* (x * 32767).astype(np.int16) for a float in the int16 range: the
\* conversion drops the fraction
astype_int16(x) == py_int(x)
to_pcm(wave) == [i \in DOMAIN wave |-> astype_int16(RMul(wave[i], RInt(32767)))]

\* a table as found at csv_path with nrows rows under its header: the rows
\* of the saved table, cut short or followed by rows of zeros
resized_table(self, nrows) ==
    LET saved == envelope_csv(self)
    IN  <<saved[1]>> \o
        [r \in 1..nrows |->
            IF r <= self.num_points THEN saved[r + 1]
            ELSE <<py_str_int(r - 1), py_str_float(Zero), py_str_float(Zero)>>]

\* get_modified_wave of tempCodeRunnerFile: a sample equal to 0 matches
\* neither `> 0` nor `< 0` and keeps the source sample
get_modified_wave_temp(self) ==
    [i \in DOMAIN self.audio_data |->
        IF RGt(self.audio_data[i], Zero)
        THEN RAdd(self.drawing_pos[i], self.offset)
        ELSE IF RLt(self.audio_data[i], Zero)
        THEN RAdd(self.drawing_neg[i], self.offset)
        ELSE self.audio_data[i]]

\* EnvelopePlot.preview_envelope of the natural script, up to the
\* conversion to int16: substitution, then the offset is subtracted
preview_envelope(self) ==
    LET adjusted == [i \in DOMAIN self.audio_data |->
                        IF RGe(self.audio_data[i], Zero)
                        THEN RAdd(RMul(self.center_pos, self.drawing_pos[i]), self.offset)
                        ELSE RAdd(RMul(self.center_neg, self.drawing_neg[i]), self.offset)]
    IN  [i \in DOMAIN adjusted |-> RSub(adjusted[i], self.offset)]

\* EnvelopePlot.preview_envelope of tempCodeRunnerFile, up to the
\* conversion to int16
preview_envelope_temp(self) ==
    [i \in DOMAIN self.audio_data |->
        IF RGt(self.audio_data[i], Zero)
        THEN RAdd(self.drawing_pos[i], self.offset)
        ELSE IF RLt(self.audio_data[i], Zero)
        THEN RAdd(self.drawing_neg[i], self.offset)
        ELSE self.audio_data[i]]

\* int16 sample values of the wav files given to the synthesis, the values
\* drawn on the two sides, and the centering offsets
PcmVals == {-1000, 0, 500}
PosVals == {Zero, R(9, 10)}
NegVals == {Zero, R(-9, 10)}
OffsetVals(v) == IF v = "natural" THEN {Zero, R(1, 2)} ELSE {Zero}

Arrays(n, vals) == [0..(n - 1) -> vals]

\* a plot after its drawing phase
Drawn(data, pos, neg, offset) ==
    [EnvelopePlot_init([sample_rate |-> 8000, data |-> data], 1) EXCEPT
        !.drawing_pos = pos, !.drawing_neg = neg, !.offset = offset]

\* the scenario of the specification's testable properties
ScenarioPlot ==
    Drawn([i \in 0..4 |-> <<-500, 0, 500, 1000, -1000>>[i + 1]],
          [i \in 0..4 |-> <<Zero, Zero, R(1, 5), R(9, 10), Zero>>[i + 1]],
          [i \in 0..4 |-> <<R(-1, 10), Zero, Zero, Zero, R(-9, 10)>>[i + 1]],
          Zero)

SynthInputs(v) ==
    {ScenarioPlot} \cup
    UNION {{Drawn(data, pos, neg, offset) :
               data \in {d \in Arrays(n, PcmVals) : \E i \in 0..(n - 1) : d[i] # 0},
               pos \in Arrays(n, PosVals), neg \in Arrays(n, NegVals),
               offset \in OffsetVals(v)} : n \in 1..MaxLen}

InitSynth ==
    /\ variant \in {"natural", "temp"}
    /\ \E inp \in SynthInputs(variant) : envelope_plots = <<inp>>
    /\ phase = "export"
    /\ raised = "none"
    /\ nevents = 0
    /\ last = NoEvent("init")
    /\ begin_state = <<None>>
    /\ synth = SynthIdle
    /\ stroke = NoStroke
    /\ session = NoSession

SynthFrame ==
    UNCHANGED <<variant, phase, raised, nevents, last, begin_state, stroke, session>>

SynthUnchanged == SynthFrame /\ UNCHANGED envelope_plots

\* adjusted = np.copy(self.audio_data): the array the substitution loop
\* fills; shares: writing to it writes to self.audio_data
np_copy_returns_view(a) == [data |-> a, shares |-> TRUE]

np_copy(a) == [data |-> a, shares |-> FALSE]

\* the plot after the loop `adjusted[i] = ...` has stored `filled` in adjusted
substitution_loop(self, adjusted, filled) ==
    IF adjusted.shares THEN [self EXCEPT !.audio_data = filled] ELSE self

\* the plot of the session after a direct substitution whose loop stored
\* `filled` (the output before the offset is subtracted from it)
Substituted(filled) ==
    /\ envelope_plots' =
          [envelope_plots EXCEPT
              ![1] = substitution_loop(@, np_copy(@.audio_data), filled)]
    /\ SynthFrame

\* the array out + offset where the offset was subtracted, out elsewhere
Unstripped(stripped, out) ==
    IF stripped THEN [i \in DOMAIN out |-> RAdd(out[i], envelope_plots[1].offset)]
    ELSE out

Synthesized(op, stripped, out) ==
    /\ synth' = [op |-> op, stripped |-> stripped, out |-> out]
    /\ Substituted(Unstripped(stripped, out))

\* a synthesis whose output is converted to int16 samples
Encoded(op, stripped, out) ==
    /\ synth' = [op |-> op, stripped |-> stripped, out |-> out, pcm |-> to_pcm(out)]
    /\ Substituted(Unstripped(stripped, out))

\* process_multi_division of the natural script: the wav export
\* (subtract_offset = TRUE) and the natural-language and comparison plots
\* (subtract_offset = FALSE) read the saved table
GetModifiedWave(subtract_offset) ==
    /\ phase = "export" /\ variant = "natural"
    /\ Synthesized("get_modified_wave", subtract_offset,
           get_modified_wave(ep, envelope_csv(ep), subtract_offset).wave)

\* get_modified_wave reading a table at csv_path that has nrows rows, as
\* the first synthesis of the export
GetModifiedWaveOfTable(nrows, subtract_offset) ==
    /\ phase = "export" /\ variant = "natural" /\ synth.op = "none"
    /\ LET res == get_modified_wave(ep, resized_table(ep, nrows), subtract_offset)
       IN  /\ synth' = [op |-> "get_modified_wave(table)", nrows |-> nrows,
                         stripped |-> subtract_offset,
                         out |-> res.wave, exc |-> res.exc]
           /\ IF res.exc # "none" THEN SynthUnchanged
              ELSE Substituted(Unstripped(subtract_offset, res.wave))

\* the saved table read back
LoadEnvelopeCsv ==
    /\ phase = "export" /\ variant = "natural"
    /\ synth' = [op |-> "load_envelope_csv", out |-> load_envelope_csv(envelope_csv(ep))]
    /\ SynthUnchanged

\* the modified audio files: wavfile.write(..., (mod_wave * 32767).astype(np.int16))
WavfileWrite ==
    /\ phase = "export" /\ variant = "natural"
    /\ Encoded("wavfile_write", TRUE,
           get_modified_wave(ep, envelope_csv(ep), TRUE).wave)

WavfileWriteTemp ==
    /\ phase = "export" /\ variant = "temp"
    /\ Encoded("wavfile_write", FALSE, get_modified_wave_temp(ep))

\* save_csv_and_wav and the plots of tempCodeRunnerFile
GetModifiedWaveTemp ==
    /\ phase = "export" /\ variant = "temp"
    /\ Synthesized("get_modified_wave", FALSE, get_modified_wave_temp(ep))

\* the 'p' key
PreviewEnvelope ==
    /\ phase = "export" /\ variant = "natural"
    /\ Encoded("preview_envelope", TRUE, preview_envelope(ep))

PreviewEnvelopeTemp ==
    /\ phase = "export" /\ variant = "temp"
    /\ Encoded("preview_envelope", FALSE, preview_envelope_temp(ep))

NextSynth ==
    \/ \E subtract_offset \in BOOLEAN : GetModifiedWave(subtract_offset)
    \/ GetModifiedWaveTemp
    \/ PreviewEnvelope
    \/ PreviewEnvelopeTemp
    \/ \E nrows \in 0..(ep.num_points + 1), subtract_offset \in BOOLEAN :
          GetModifiedWaveOfTable(nrows, subtract_offset)
    \/ LoadEnvelopeCsv
    \/ WavfileWrite
    \/ WavfileWriteTemp

SpecSynth == InitSynth /\ [][NextSynth]_vars

\* the value direct substitution selects for sample i: the positive side
\* where the source sample is >= 0, the negative side where it is < 0
Selected(self, i) ==
    IF RGe(self.audio_data[i], Zero) THEN self.drawing_pos[i] ELSE self.drawing_neg[i]

\* the output of the last synthesis with the offset put back where the
\* implementation stripped it
WithOffset(i) ==
    IF synth.stripped THEN RAdd(synth.out[i], ep.offset) ELSE synth.out[i]

\* C6: the output of direct substitution is positive[i] + offset where
\* samples[i] >= 0 and negative[i] + offset where samples[i] < 0, unclipped,
\* at every index; the scenario yields [-0.1, 0, 0.2, 0.9, -0.9]
C6_DirectSubstitution ==
    synth.op = "get_modified_wave" =>
        /\ \A i \in 0..(ep.num_points - 1) :
              WithOffset(i) = RAdd(Selected(ep, i), ep.offset)
        /\ ep = ScenarioPlot =>
              synth.out = [i \in 0..4 |->
                  <<R(-1, 10), Zero, R(1, 5), R(9, 10), R(-9, 10)>>[i + 1]]

\* C7: where the source sample is exactly 0 every implementation of direct
\* substitution (get_modified_wave and preview_envelope of both scripts)
\* outputs positive[i] + offset
C7_ZeroIsNonNegative ==
    synth.op \in {"get_modified_wave", "preview_envelope"} =>
        \A i \in 0..(ep.num_points - 1) :
            ep.audio_data[i] = Zero =>
                WithOffset(i) = RAdd(ep.drawing_pos[i], ep.offset)

\* C15: direct substitution fails with an error whenever the table it reads
\* has a number of rows different from N, shorter or longer, and returns no
\* waveform then
C15_LengthMismatchFails ==
    (synth.op = "get_modified_wave(table)" /\ synth.nrows # ep.num_points) =>
        synth.exc # "none" /\ synth.out = None

\* C19: the saved table read back by load_envelope_csv gives the positive
\* and negative arrays again: the same length N and the same value at
\* every index
C19_TableRoundTrip ==
    synth.op = "load_envelope_csv" =>
        /\ DOMAIN synth.out.pos = 0..(ep.num_points - 1)
        /\ DOMAIN synth.out.neg = 0..(ep.num_points - 1)
        /\ \A i \in 0..(ep.num_points - 1) :
              /\ synth.out.pos[i] = ep.drawing_pos[i]
              /\ synth.out.neg[i] = ep.drawing_neg[i]

\* a table with a negative value, a fraction and a zero was read back
C19_Witness ==
    /\ synth.op = "load_envelope_csv"
    /\ \E i, j, k \in 0..(ep.num_points - 1) :
          /\ synth.out.pos[i] = R(9, 10)
          /\ RLt(synth.out.neg[j], Zero)
          /\ synth.out.pos[k] = Zero /\ i # k

\* C20: every sample s in [-1, 1] of the waveform that is encoded becomes
\* the 16-bit integer nearest to s * 32767
C20_EncodeRounds ==
    synth.op \in {"wavfile_write", "preview_envelope"} =>
        \A i \in DOMAIN synth.out :
            (RLe(RInt(-1), synth.out[i]) /\ RLe(synth.out[i], RInt(1))) =>
                synth.pcm[i] = py_round(RMul(synth.out[i], RInt(32767)))

\* the plot with its centering offset set to o
AtOffset(self, o) == [self EXCEPT !.offset = o]

\* C21: in the natural script the offset is not part of the saved audio:
\* with subtract_offset = True the output of direct substitution at index i
\* is positive[i] (samples[i] >= 0) or negative[i] (samples[i] < 0) whatever
\* the offset, so the saved samples are those of the same export at any
\* other offset; with subtract_offset = False it is that value plus offset
C21_OffsetNotBaked ==
    variant = "natural" =>
        /\ synth.op \in {"get_modified_wave", "wavfile_write", "preview_envelope"} =>
              \A i \in 0..(ep.num_points - 1) :
                  synth.out[i] = IF synth.stripped THEN Selected(ep, i)
                                 ELSE RAdd(Selected(ep, i), ep.offset)
        /\ synth.op = "wavfile_write" =>
              \A o \in OffsetVals(variant) \cup {R(-9, 10)} :
                  synth.pcm =
                      to_pcm(get_modified_wave(AtOffset(ep, o), envelope_csv(ep), TRUE).wave)

\* a drawn envelope was exported under an offset different from 0
C21_Witness ==
    /\ variant = "natural" /\ synth.op = "wavfile_write"
    /\ ep.offset # Zero
    /\ \E i, j \in 0..(ep.num_points - 1) : synth.pcm[i] > 0 /\ synth.pcm[j] < 0

\* a session in its drawing phase, or after it: the events of the drawing
\* phase and the synthesis calls that follow it
InitSession == Init \/ InitSynth

NextSession == Next \/ NextSynth

SpecSession == InitSession /\ [][NextSession]_vars

\* the fields a synthesis must leave alone
SessionState(e) ==
    [audio_data |-> e.audio_data, drawing_pos |-> e.drawing_pos,
     drawing_neg |-> e.drawing_neg, offset |-> e.offset,
     last_state_pos |-> e.last_state_pos, last_state_neg |-> e.last_state_neg]

DirectSubstitutionOps == {"get_modified_wave", "preview_envelope", "wavfile_write"}

\* C22: a synthesis (get_modified_wave, preview_envelope) changes neither
\* the source samples nor positive, negative, offset or the snapshot; the
\* same substitution applied a second time gives the same output; no
\* press, move, release, undo or reset event changes the source samples
C22_SynthesisIsPure ==
    [][/\ ep_next.audio_data = ep.audio_data
       /\ phase = "export" => SessionState(ep_next) = SessionState(ep)
       /\ (/\ synth.op \in DirectSubstitutionOps /\ synth'.op = synth.op
           /\ synth'.stripped = synth.stripped) =>
              synth'.out = synth.out]_vars

\* a substitution under an offset has just produced values that differ
\* from the source samples at every index, on an envelope with a drawn value
C22_Witness ==
    /\ synth.op \in {"get_modified_wave", "preview_envelope"}
    /\ ep.offset # Zero
    /\ \A i \in 0..(ep.num_points - 1) :
          Unstripped(synth.stripped, synth.out)[i] # ep.audio_data[i]
    /\ \E i \in 0..(ep.num_points - 1) : Selected(ep, i) # Zero

\* the offset-stripped direct substitution of the running script on a plot
StrippedSubstitution(v, self) ==
    IF v = "natural" THEN preview_envelope(self)
    ELSE [i \in DOMAIN self.audio_data |->
             RSub(get_modified_wave_temp(self)[i], self.offset)]

\* C30: in every state reachable by press, move, release, undo and reset
\* events positive[i] >= 0 and negative[i] <= 0 at every index i, and so
\* the offset-stripped output of direct substitution never has the
\* strictly opposite sign of the source sample at the same index
C30_SignInvariant ==
    \A i \in 0..(ep.num_points - 1) :
        LET out == StrippedSubstitution(variant, ep)[i]
        IN  /\ RGe(ep.drawing_pos[i], Zero)
            /\ RLe(ep.drawing_neg[i], Zero)
            /\ ~(RGt(ep.audio_data[i], Zero) /\ RLt(out, Zero))
            /\ ~(RLt(ep.audio_data[i], Zero) /\ RGt(out, Zero))

\* both sides have been drawn on: a value above 0 where the source sample
\* is positive and a value below 0 where it is negative
C30_Witness ==
    /\ phase = "drawing" /\ last.op \in {"press", "move"} /\ last.changed
    /\ \E i, j \in 0..(ep.num_points - 1) :
          /\ RGt(ep.audio_data[i], Zero) /\ RGt(ep.drawing_pos[i], Zero)
          /\ RLt(ep.audio_data[j], Zero) /\ RLt(ep.drawing_neg[j], Zero)
          /\ RGt(StrippedSubstitution(variant, ep)[i], Zero)
          /\ RLt(StrippedSubstitution(variant, ep)[j], Zero)

\* mod_wave of the wav export of the running script on a plot: the natural
\* script reads the table it has just saved and subtracts the offset, the
\* other script substitutes the arrays of the plot
mod_wave(v, self) ==
    IF v = "natural" THEN get_modified_wave(self, envelope_csv(self), TRUE).wave
    ELSE get_modified_wave_temp(self)

\* x is a value of the signed 16-bit range
in_int16_range(x) == RGe(x, RInt(-32768)) /\ RLe(x, RInt(32767))

\* C32: for every envelope reachable by drawing, every sample of the
\* offset-stripped direct substitution times 32767 lies within
\* [-32768, 32767], so that astype(np.int16) converts it without overflow,
\* and the saved samples are N in number
C32_SavedAudioFitsInt16 ==
    /\ HasLength(mod_wave(variant, ep), ep.num_points)
    /\ \A i \in 0..(ep.num_points - 1) :
          in_int16_range(RMul(mod_wave(variant, ep)[i], RInt(32767)))

-----------------------------------------------------------------------------
(* strict_sign_subdivision and plot_strict_sign_colored_line *)

\* longest polyline given to strict_sign_subdivision
MaxPoly == 3

\* The y values of a polyline are given as multiples of y_unit, which is
\* "1" or "1e-13": the function only compares them with 0, divides one
\* difference by another and compares a difference with 1e-12.

\* sign_color
sign_color(val) == IF RLt(val, Zero) THEN 0 ELSE 1

\* (yi < 0 and yip1 >= 0) or (yi >= 0 and yip1 < 0)
crosses_upward_only(yi, yip1) == RLt(yi, Zero) /\ RGe(yip1, Zero)

crosses(yi, yip1) ==
    \/ RLt(yi, Zero) /\ RGe(yip1, Zero)
    \/ RGe(yi, Zero) /\ RLt(yip1, Zero)

\* abs(dy) > 1e-12 : in multiples of 1e-13 that is abs(dy) > 10; a
\* difference of the model in multiples of 1 is 0 or far above 1e-12
exceeds_1e_12(dy, y_unit) ==
    IF y_unit = "1e-13" THEN Abs(dy[1]) > 10 * dy[2] ELSE dy # Zero

\* t = (0 - yi)/dy if abs(dy) > 1e-12 else 0.5
crossing_t_of_yi(yi, yip1, y_unit) ==
    LET dy == RSub(yip1, yi)
    IN  IF exceeds_1e_12(dy, y_unit) THEN RDiv(yi, dy) ELSE R(1, 2)

crossing_t(yi, yip1, y_unit) ==
    LET dy == RSub(yip1, yi)
    IN  IF exceeds_1e_12(dy, y_unit) THEN RDiv(RSub(Zero, yi), dy) ELSE R(1, 2)

\* crossing_color = 1 if (yi < 0 and yip1 >= 0) else 0
crossing_color_source_side(yi, yip1) == sign_color(yi)

crossing_color(yi, yip1) == IF RLt(yi, Zero) /\ RGe(yip1, Zero) THEN 1 ELSE 0

\* np.array(list): Python lists are sequences, arrays start at index 0
np_array(list) == [i \in 0..(Len(list) - 1) |-> list[i + 1]]

\* the turns i, i+1, ..., n-2 of the loop of strict_sign_subdivision, on
\* the three lists built so far
RECURSIVE subdivision_loop(_, _, _, _, _)
subdivision_loop(x, y, y_unit, i, lists) ==
    IF i > Len0(x) - 2 THEN lists
    ELSE LET point == [new_x |-> Append(lists.new_x, x[i]),
                       new_y |-> Append(lists.new_y, y[i]),
                       color_val |-> Append(lists.color_val, sign_color(y[i]))]
             x_cross == RAdd(x[i], RMul(crossing_t(y[i], y[i + 1], y_unit),
                                        RSub(x[i + 1], x[i])))
         IN  subdivision_loop(x, y, y_unit, i + 1,
                 IF crosses(y[i], y[i + 1])
                 THEN [new_x |-> Append(point.new_x, x_cross),
                       new_y |-> Append(point.new_y, Zero),
                       color_val |-> Append(point.color_val,
                                            crossing_color(y[i], y[i + 1]))]
                 ELSE point)

strict_sign_subdivision(x, y, y_unit) ==
    IF Len0(x) = 0
    THEN [new_x |-> np_array(<<>>), new_y |-> np_array(<<>>),
          color_val |-> np_array(<<>>)]
    ELSE LET lists == subdivision_loop(x, y, y_unit, 0,
                          [new_x |-> <<>>, new_y |-> <<>>, color_val |-> <<>>])
         IN  [new_x |-> np_array(Append(lists.new_x, py_getitem(x, -1))),
              new_y |-> np_array(Append(lists.new_y, py_getitem(y, -1))),
              color_val |-> np_array(Append(lists.color_val,
                                            sign_color(py_getitem(y, -1))))]

\* plot_strict_sign_colored_line: the segments of the LineCollection, from
\* points[:-1] to points[1:], segment k drawn in the color cvals[:-1][k]
\* (0: neg_color, 1: pos_color)
plot_strict_sign_colored_line(xdata, ydata, y_unit) ==
    LET sub == strict_sign_subdivision(xdata, ydata, y_unit)
    IN  [k \in 0..(Len0(sub.new_x) - 2) |->
            [from |-> <<sub.new_x[k], sub.new_y[k]>>,
             to |-> <<sub.new_x[k + 1], sub.new_y[k + 1]>>,
             color |-> sub.color_val[k]]]

\* the polylines: x = step * np.arange(n), y multiples of y_unit
YMultiples == {RInt(-1), RInt(0), RInt(1), RInt(20)}
Polylines ==
    UNION {{[op |-> "polyline", y_unit |-> u,
             x |-> [i \in 0..(n - 1) |-> RInt(step * i)], y |-> y] :
               u \in {"1", "1e-13"}, step \in {1, 2},
               y \in [0..(n - 1) -> YMultiples]} : n \in 0..MaxPoly}

InitPartition ==
    /\ variant = "natural"
    /\ synth \in Polylines
    /\ envelope_plots = <<>>
    /\ phase = "natural_lang"
    /\ raised = "none"
    /\ nevents = 0
    /\ last = NoEvent("init")
    /\ begin_state = <<>>
    /\ stroke = NoStroke
    /\ session = NoSession

StrictSignSubdivision ==
    /\ synth.op = "polyline"
    /\ synth' = [synth EXCEPT !.op = "strict_sign_subdivision"] @@
                 [out |-> strict_sign_subdivision(synth.x, synth.y, synth.y_unit)]
    /\ SynthUnchanged

PlotStrictSignColoredLine ==
    /\ synth.op = "polyline"
    /\ synth' = [synth EXCEPT !.op = "plot_strict_sign_colored_line"] @@
                 [out |-> strict_sign_subdivision(synth.x, synth.y, synth.y_unit),
                  segments |-> plot_strict_sign_colored_line(synth.x, synth.y,
                                                             synth.y_unit)]
    /\ SynthUnchanged

NextPartition == StrictSignSubdivision \/ PlotStrictSignColoredLine

SpecPartition == InitPartition /\ [][NextPartition]_vars

\* the input pair i, i+1 has one value < 0 and the other >= 0, upward or
\* downward
Upward(y, i) == RLt(y[i], Zero) /\ RGe(y[i + 1], Zero)
Downward(y, i) == RGe(y[i], Zero) /\ RLt(y[i + 1], Zero)
Crossing(y, i) == Upward(y, i) \/ Downward(y, i)

\* the magnitude of y[i+1] - y[i] is at most 1e-12
NearFlat(y, i, y_unit) ==
    LET dy == RSub(y[i + 1], y[i])
    IN  y_unit = "1e-13" /\ RLe(dy, RInt(10)) /\ RGe(dy, RInt(-10))

\* the position of input point i among the emitted points: i plus the
\* number of crossings before it
Emitted(y, i) == i + Cardinality({j \in 0..(i - 1) : Crossing(y, j)})

\* the emitted points are the input points, each tagged negative (0) if its
\* y < 0 and positive (1) otherwise, and one point with y = 0 after the
\* first point of every crossing pair, at x_i + t * (x_{i+1} - x_i), tagged
\* positive when crossing upward and negative when crossing downward; t is
\* -y_i / (y_{i+1} - y_i), or 1/2 for a near-flat pair when with_fallback
SignPartition(with_fallback) ==
    LET x == synth.x
        y == synth.y
        out == synth.out
        n == Len0(x)
        t(i) == IF with_fallback /\ NearFlat(y, i, synth.y_unit) THEN R(1, 2)
                ELSE RDiv(RSub(Zero, y[i]), RSub(y[i + 1], y[i]))
    IN  /\ Len0(out.new_x) = IF n = 0 THEN 0 ELSE Emitted(y, n - 1) + 1
        /\ DOMAIN out.new_y = DOMAIN out.new_x
        /\ DOMAIN out.color_val = DOMAIN out.new_x
        /\ \A i \in 0..(n - 1) :
              /\ out.new_x[Emitted(y, i)] = x[i]
              /\ out.new_y[Emitted(y, i)] = y[i]
              /\ out.color_val[Emitted(y, i)] = IF RLt(y[i], Zero) THEN 0 ELSE 1
        /\ \A i \in 0..(n - 2) :
              Crossing(y, i) =>
                  /\ out.new_x[Emitted(y, i) + 1] =
                         RAdd(x[i], RMul(t(i), RSub(x[i + 1], x[i])))
                  /\ out.new_y[Emitted(y, i) + 1] = Zero
                  /\ out.color_val[Emitted(y, i) + 1] = IF Upward(y, i) THEN 1 ELSE 0

\* y = [-1, 1] at x = [0, 1] yields (0,-1,neg), (0.5,0,pos), (1,1,pos);
\* y = [1, -1] yields the inserted zero tagged negative
SignPartitionExamples ==
    (synth.y_unit = "1" /\ synth.x = np_array(<<RInt(0), RInt(1)>>)) =>
        /\ synth.y = np_array(<<RInt(-1), RInt(1)>>) =>
              synth.out = [new_x |-> np_array(<<RInt(0), R(1, 2), RInt(1)>>),
                           new_y |-> np_array(<<RInt(-1), Zero, RInt(1)>>),
                           color_val |-> np_array(<<0, 1, 1>>)]
        /\ synth.y = np_array(<<RInt(1), RInt(-1)>>) =>
              /\ synth.out.new_y = np_array(<<RInt(1), Zero, RInt(-1)>>)
              /\ synth.out.color_val = np_array(<<1, 0, 0>>)

\* C17 as stated: the inserted point of every crossing pair lies at
\* t = -y_i / (y_{i+1} - y_i)
C17_CrossingInsertionExact ==
    synth.op = "strict_sign_subdivision" =>
        SignPartition(FALSE) /\ SignPartitionExamples

\* C17 amended: as stated, but for a crossing pair whose values differ by at
\* most 1e-12 the inserted point lies at t = 0.5
C17_CrossingInsertion ==
    synth.op = "strict_sign_subdivision" =>
        SignPartition(TRUE) /\ SignPartitionExamples

\* a polyline was subdivided that crosses upward and downward, one of the
\* crossings near-flat with -y_i / (y_{i+1} - y_i) different from 0.5
C17_Witness ==
    /\ synth.op = "strict_sign_subdivision"
    /\ \E i, j, k \in 0..(Len0(synth.x) - 2) :
          /\ Upward(synth.y, i) /\ Downward(synth.y, j)
          /\ Crossing(synth.y, k) /\ NearFlat(synth.y, k, synth.y_unit)
          /\ RDiv(RSub(Zero, synth.y[k]), RSub(synth.y[k + 1], synth.y[k])) # R(1, 2)
    /\ Len0(synth.out.new_x) = Len0(synth.x) + 2

\* C18: every segment between consecutive emitted points is drawn in its
\* first point's tag and both its end values agree with the tag: both <= 0
\* when negative, both >= 0 when positive; none has one end < 0 and the
\* other > 0
C18_NoStraddle ==
    synth.op = "plot_strict_sign_colored_line" =>
        /\ DOMAIN synth.segments = 0..(Len0(synth.out.new_x) - 2)
        /\ \A k \in DOMAIN synth.segments :
              LET seg == synth.segments[k]
              IN  /\ seg.from = <<synth.out.new_x[k], synth.out.new_y[k]>>
                  /\ seg.to = <<synth.out.new_x[k + 1], synth.out.new_y[k + 1]>>
                  /\ seg.color = synth.out.color_val[k]
                  /\ seg.color = 0 => RLe(seg.from[2], Zero) /\ RLe(seg.to[2], Zero)
                  /\ seg.color = 1 => RGe(seg.from[2], Zero) /\ RGe(seg.to[2], Zero)
                  /\ ~(RLt(seg.from[2], Zero) /\ RGt(seg.to[2], Zero))
                  /\ ~(RGt(seg.from[2], Zero) /\ RLt(seg.to[2], Zero))

\* a curve going from below zero to above and back was drawn: a negative
\* segment ends and a positive one starts at an inserted zero, and the
\* reverse
C18_Witness ==
    /\ synth.op = "plot_strict_sign_colored_line"
    /\ \E k, m \in DOMAIN synth.segments :
          /\ k + 1 \in DOMAIN synth.segments /\ m + 1 \in DOMAIN synth.segments
          /\ RLt(synth.segments[k].from[2], Zero) /\ synth.segments[k].color = 0
          /\ RGt(synth.segments[k + 1].to[2], Zero) /\ synth.segments[k + 1].color = 1
          /\ RGt(synth.segments[m].from[2], Zero) /\ synth.segments[m].color = 1
          /\ RLt(synth.segments[m + 1].to[2], Zero) /\ synth.segments[m + 1].color = 0

\* the input pairs whose sign class (< 0 versus >= 0) differs
CrossingPairs(y) == {i \in 0..(Len0(y) - 2) : Crossing(y, i)}

\* C33: the emitted sequence of an input of n >= 1 points with ascending x
\* is the input sequence, in order and with x and y unchanged, plus one
\* inserted point right after the first point of every pair whose sign
\* class differs, n plus the number of such pairs in all; every inserted x
\* lies within [x_i, x_{i+1}] and the emitted x never decrease; an empty
\* input yields three empty outputs
C33_PartitionPreservesInput ==
    synth.op = "strict_sign_subdivision" =>
        LET x == synth.x
            y == synth.y
            out == synth.out
            n == Len0(x)
            len == n + Cardinality(CrossingPairs(y))
        IN  IF n = 0
            THEN out.new_x = <<>> /\ out.new_y = <<>> /\ out.color_val = <<>>
            ELSE /\ DOMAIN out.new_x = 0..(len - 1)
                 /\ DOMAIN out.new_y = 0..(len - 1)
                 /\ DOMAIN out.color_val = 0..(len - 1)
                 /\ \A i \in 0..(n - 1) :
                       /\ out.new_x[Emitted(y, i)] = x[i]
                       /\ out.new_y[Emitted(y, i)] = y[i]
                 /\ \A i, j \in 0..(n - 1) : i < j => Emitted(y, i) < Emitted(y, j)
                 /\ \A k \in 0..(len - 1) :
                       \/ \E i \in 0..(n - 1) : k = Emitted(y, i)
                       \/ \E i \in CrossingPairs(y) : k = Emitted(y, i) + 1
                 /\ \A i \in CrossingPairs(y) :
                       /\ RLe(x[i], out.new_x[Emitted(y, i) + 1])
                       /\ RLe(out.new_x[Emitted(y, i) + 1], x[i + 1])
                 /\ \A k \in 0..(len - 2) : RLe(out.new_x[k], out.new_x[k + 1])

\* a polyline of three or more points was subdivided that has a pair
\* without a sign change and a pair with one, whose inserted point lies
\* strictly between the two points of the pair
C33_Witness ==
    /\ synth.op = "strict_sign_subdivision"
    /\ Len0(synth.x) >= 3
    /\ Len0(synth.out.new_x) = Len0(synth.x) + 1
    /\ \E i, j \in 0..(Len0(synth.x) - 2) :
          /\ ~Crossing(synth.y, j)
          /\ Crossing(synth.y, i)
          /\ RLt(synth.x[i], synth.out.new_x[Emitted(synth.y, i) + 1])
          /\ RLt(synth.out.new_x[Emitted(synth.y, i) + 1], synth.x[i + 1])

-----------------------------------------------------------------------------
(* Peak-anchored rescaling, the second synthesis strategy.  Its code is    *)
(* not among the source files; it is modelled from section 4.3 of the      *)
(* specification.                                                          *)

\* longest waveform given to the peak-anchored rescaling
MaxPeak == 3

\* the local maxima of samples and of -samples, ascending: the indices
\* whose value is above both neighbours or below both
local_extrema(samples) ==
    {i \in DOMAIN samples :
        /\ i - 1 \in DOMAIN samples /\ i + 1 \in DOMAIN samples
        /\ \/ RGt(samples[i], samples[i - 1]) /\ RGt(samples[i], samples[i + 1])
           \/ RLt(samples[i], samples[i - 1]) /\ RLt(samples[i], samples[i + 1])}

\* the PeakFactor record of extremum i: target / original, 1.0 where the
\* original value is 0
peak_factor_zero_at_zero(self, i) ==
    LET v == self.audio_data[i]
        t == RAdd(IF RGe(v, Zero) THEN self.drawing_pos[i] ELSE self.drawing_neg[i],
                  self.offset)
    IN  [index |-> i, original |-> v, target |-> t,
         factor |-> IF v # Zero THEN RDiv(t, v) ELSE Zero]

peak_factor(self, i) ==
    LET v == self.audio_data[i]
        t == RAdd(IF RGe(v, Zero) THEN self.drawing_pos[i] ELSE self.drawing_neg[i],
                  self.offset)
    IN  [index |-> i, original |-> v, target |-> t,
         factor |-> IF v # Zero THEN RDiv(t, v) ELSE RInt(1)]

SetMin(S) == CHOOSE m \in S : \A k \in S : m <= k
SetMax(S) == CHOOSE m \in S : \A k \in S : m >= k

\* the piecewise-linear interpolation of fp over the control points xp at
\* index i, held at the nearest control point's value outside them; all
\* ones when there is no control point
interp_factor_linear_outside(xp, fp, i) ==
    IF xp = {} THEN RInt(1)
    ELSE LET a == IF \E k \in xp : k <= i THEN SetMax({k \in xp : k <= i}) ELSE SetMin(xp)
             b == IF \E k \in xp : k >= i THEN SetMin({k \in xp : k >= i}) ELSE SetMax(xp)
         IN  IF a = b THEN RMul(fp[a], RInt(1 + Abs(i - a)))
             ELSE RAdd(fp[a], RMul(RSub(fp[b], fp[a]), R(i - a, b - a)))

interp_factor(xp, fp, i) ==
    IF xp = {} THEN RInt(1)
    ELSE IF i <= SetMin(xp) THEN fp[SetMin(xp)]
    ELSE IF i >= SetMax(xp) THEN fp[SetMax(xp)]
    ELSE LET a == SetMax({k \in xp : k <= i})
             b == SetMin({k \in xp : k >= i})
         IN  IF a = b THEN fp[a]
             ELSE RAdd(fp[a], RMul(RSub(fp[b], fp[a]), R(i - a, b - a)))

\* clip(x, lo, hi)
clip(x, lo, hi) == IF RLt(x, lo) THEN lo ELSE IF RGt(x, hi) THEN hi ELSE x

\* peak-anchored rescaling: samples[i] * factor[i], clipped to [-1, 1]
peak_anchored_rescale(self) ==
    LET xp == local_extrema(self.audio_data)
        peaks == [i \in xp |-> peak_factor(self, i)]
        fp == [i \in xp |-> peaks[i].factor]
        factor == [i \in DOMAIN self.audio_data |-> interp_factor(xp, fp, i)]
    IN  [peaks |-> peaks, factor |-> factor,
         out |-> [i \in DOMAIN self.audio_data |->
                     clip(RMul(self.audio_data[i], factor[i]), RInt(-1), RInt(1))]]

\* int16 samples of the sources, and the values drawn on the two sides
PeakPcm == {-1000, 0, 250, 500}
PeakPos == {Zero, RInt(1)}
PeakNeg == {Zero, R(-1, 2)}

InitPeak ==
    /\ variant = "natural"
    /\ \E n \in 1..MaxPeak :
          \E data \in Arrays(n, PeakPcm), pos \in Arrays(n, PeakPos),
             neg \in Arrays(n, PeakNeg) :
              /\ \E i \in 0..(n - 1) : data[i] # 0
              /\ envelope_plots = <<Drawn(data, pos, neg, Zero)>>
    /\ phase = "export"
    /\ raised = "none"
    /\ nevents = 0
    /\ last = NoEvent("init")
    /\ begin_state = <<None>>
    /\ synth = SynthIdle
    /\ stroke = NoStroke
    /\ session = NoSession

PeakAnchoredRescale ==
    /\ phase = "export" /\ synth.op = "none"
    /\ synth' = [op |-> "peak_anchored_rescale"] @@ peak_anchored_rescale(ep)
    /\ SynthUnchanged

NextPeak == PeakAnchoredRescale

SpecPeak == InitPeak /\ [][NextPeak]_vars

\* C25: for a source with exactly one local extremum, positive with value
\* 0.5 at index k, and the drawn target 1.0 at k, the output at every index
\* i is clip(samples[i] * 2.0, -1, 1): the factor 2.0 is held flat on both
\* sides of the extremum
C25_SingleControlPoint ==
    synth.op = "peak_anchored_rescale" =>
        \A k \in 0..(ep.num_points - 1) :
            (/\ local_extrema(ep.audio_data) = {k}
             /\ ep.audio_data[k] = R(1, 2)
             /\ RAdd(ep.drawing_pos[k], ep.offset) = RInt(1)) =>
                \A i \in 0..(ep.num_points - 1) :
                    /\ synth.factor[i] = RInt(2)
                    /\ synth.out[i] =
                          clip(RMul(ep.audio_data[i], RInt(2)), RInt(-1), RInt(1))

\* such a source was rescaled: its first sample is clipped, its last is
\* doubled without clipping
C25_Witness ==
    /\ synth.op = "peak_anchored_rescale"
    /\ local_extrema(ep.audio_data) = {1}
    /\ ep.audio_data[1] = R(1, 2) /\ ep.drawing_pos[1] = RInt(1)
    /\ ep.audio_data[0] = RInt(-1) /\ synth.out[0] = RInt(-1)
    /\ ep.audio_data[2] = R(1, 4) /\ synth.out[2] = R(1, 2)

\* C26: on a source with no local extremum the output is the input
\* unchanged (an all-ones factor), and the factor of an extremum whose
\* original value is 0 is 1.0
C26_PeakFallbacks ==
    synth.op = "peak_anchored_rescale" =>
        /\ local_extrema(ep.audio_data) = {} =>
              /\ synth.out = ep.audio_data
              /\ \A i \in 0..(ep.num_points - 1) : synth.factor[i] = RInt(1)
        /\ \A k \in local_extrema(ep.audio_data) :
              ep.audio_data[k] = Zero =>
                  /\ synth.peaks[k].factor = RInt(1)
                  /\ synth.factor[k] = RInt(1)

\* a source whose only extremum has the value 0, under a drawn target there
C26_Witness ==
    /\ synth.op = "peak_anchored_rescale"
    /\ \E k \in local_extrema(ep.audio_data) :
          /\ ep.audio_data[k] = Zero /\ ep.drawing_pos[k] # Zero
          /\ local_extrema(ep.audio_data) = {k}
          /\ synth.out = ep.audio_data

====
